---- MODULE Spec2Model ----
(***************************************************************************)
(* Filler-aware interruption handling of one participant session.          *)
(*                                                                         *)
(* The model covers FillerInterruptHandler (tokenizer, configuration,      *)
(* speaking flag, lock, reaction lists, handle_transcript) and the wiring  *)
(* MultiUserTranscriber._start_session gives it: the three reactions it    *)
(* registers and the STT listener that starts one asyncio task per         *)
(* transcript event.                                                       *)
(*                                                                         *)
(* Scheduling is that of one asyncio event loop: a coroutine keeps the     *)
(* loop from the moment the loop resumes it until it reaches an await that *)
(* really suspends.  `running` is the task that holds the loop; `ready` is *)
(* the loop's FIFO queue of tasks to resume.  Everything that is not a     *)
(* modelled task (the listener, set_agent_speaking and the update_* calls  *)
(* made by other coroutines, reaction registration) runs when no modelled  *)
(* task holds the loop.                                                    *)
(*                                                                         *)
(* Three further specifications share the module's variables, each moving  *)
(* its own part of the state: CtorSpec (the handler constructed with other *)
(* thresholds), TurnSpec (Transcriber.on_user_turn_completed and the       *)
(* playbacks it awaits) and RegistrySpec (MultiUserTranscriber: connect    *)
(* and disconnect events, the _start_session and _close_session tasks,     *)
(* aclose).                                                                *)
(*                                                                         *)
(* Text is a sequence of one-character strings, a word is such a sequence  *)
(* without separators.  Confidences are integers in hundredths.            *)
(***************************************************************************)
EXTENDS Integers, Sequences, FiniteSets, TLC

(***************************************************************************)
(* Bounds of the model.                                                    *)
(***************************************************************************)
MaxEvents == 2      \* transcript events delivered by the STT listener
MaxCallbacks == 2   \* reactions registered besides those of _start_session
MaxTurns == 3       \* user turns completed
MaxSetups == 2      \* _start_session tasks created

(***************************************************************************)
(* Characters.                                                             *)
(***************************************************************************)
Uppers == <<"A","B","C","D","E","F","G","H","I","J","K","L","M",
            "N","O","P","Q","R","S","T","U","V","W","X","Y","Z">>
Lowers == <<"a","b","c","d","e","f","g","h","i","j","k","l","m",
            "n","o","p","q","r","s","t","u","v","w","x","y","z">>
Digits == {"0","1","2","3","4","5","6","7","8","9"}
Whitespace == {" ", "\t", "\n"}

Range(s) == {s[i] : i \in 1..Len(s)}

\* str.lower() on one character
LowerChar(c) ==
    IF \E i \in 1..Len(Uppers) : Uppers[i] = c
    THEN Lowers[CHOOSE i \in 1..Len(Uppers) : Uppers[i] = c]
    ELSE c

\* str.lower()
Lower(s) == [i \in 1..Len(s) |-> LowerChar(s[i])]

\* the characters _TOKEN_RE keeps: \w (letters, digits, underscore) and '
IsTokenChar(c) ==
    c \in Range(Uppers) \cup Range(Lowers) \cup Digits \cup {"_", "'"}

\* str.strip(): leading and trailing whitespace removed
RECURSIVE LStrip(_)
LStrip(s) ==
    IF s # <<>> /\ Head(s) \in Whitespace THEN LStrip(Tail(s)) ELSE s

RECURSIVE RStrip(_)
RStrip(s) ==
    IF s # <<>> /\ s[Len(s)] \in Whitespace
    THEN RStrip(SubSeq(s, 1, Len(s) - 1))
    ELSE s

\* a faulty variant of Strip: the text is taken as it came
StripNothing(s) == s

Strip(s) == LStrip(RStrip(s))

\* _TOKEN_RE.sub(" ", text): every maximal run of characters that are not
\* token characters becomes one space
RECURSIVE TokenReSub(_)
TokenReSub(s) ==
    IF s = <<>> THEN <<>>
    ELSE IF IsTokenChar(Head(s)) THEN <<Head(s)>> \o TokenReSub(Tail(s))
    ELSE IF Len(s) > 1 /\ ~IsTokenChar(s[2]) THEN TokenReSub(Tail(s))
    ELSE <<" ">> \o TokenReSub(Tail(s))

normalize_text(text) == Lower(Strip(TokenReSub(text)))

\* str.split(): the maximal runs of non-whitespace characters, in order
RECURSIVE Split(_, _)
Split(s, cur) ==
    IF s = <<>> THEN (IF cur = <<>> THEN <<>> ELSE <<cur>>)
    ELSE IF Head(s) \in Whitespace
         THEN (IF cur = <<>> THEN <<>> ELSE <<cur>>) \o Split(Tail(s), <<>>)
         ELSE Split(Tail(s), Append(cur, Head(s)))

tokenize(text) == Split(normalize_text(text), <<>>)

(***************************************************************************)
(* Words and word lists.                                                   *)
(***************************************************************************)
w_uh == <<"u","h">>
w_umm == <<"u","m","m">>
w_hmm == <<"h","m","m">>
w_haan == <<"h","a","a","n">>
w_uhh == <<"u","h","h">>
w_uhm == <<"u","h","m">>
w_stop == <<"s","t","o","p">>
w_wait == <<"w","a","i","t">>
w_pause == <<"p","a","u","s","e">>
w_end == <<"e","n","d">>
w_terminate == <<"t","e","r","m","i","n","a","t","e">>
w_shut_up == <<"s","h","u","t"," ","u","p">>
w_be_quiet == <<"b","e"," ","q","u","i","e","t">>
w_halt == <<"h","a","l","t">>

w_erm == <<"e","r","m">>
w_ah == <<"a","h">>
w_mm == <<"m","m">>
w_mmh == <<"m","m","h">>
w_mhmm == <<"m","h","m","m">>
w_hold == <<"h","o","l","d">>
w_no == <<"n","o">>

DEFAULT_IGNORED_WORDS ==
    <<w_uh, w_umm, w_hmm, w_haan, w_uhh, w_uhm, w_erm, w_ah, w_mm, w_mmh, w_mhmm>>
DEFAULT_FORCE_STOP_WORDS ==
    <<w_stop, w_wait, w_hold, w_pause, w_no, w_halt, w_end, w_shut_up, w_be_quiet>>

\* the defaults of __init__: min_confidence_to_consider, ignore_if_confidence_below
DefaultMinConfidence == 50
DefaultIgnoreBelow == 40

\* the lists MultiUserTranscriber._start_session passes to the constructor
SessionIgnoredWords == <<w_uh, w_umm, w_hmm, w_haan, w_uhh, w_uhm>>
SessionForceStopWords ==
    <<w_stop, w_wait, w_pause, w_end, w_terminate, w_shut_up, w_be_quiet, w_halt>>
SessionIgnoreBelow == 35

\* set(w.lower() for w in new_list)
LowerSet(list) == {Lower(list[i]) : i \in 1..Len(list)}


(***************************************************************************)
(* Inputs.                                                                 *)
(***************************************************************************)
\* confidence: Optional[float] = None
NoConf == -1
\* an entry of `words` that is not a dict
NotADict == -1
\* an entry of `words` that is a dict without the key "confidence"
NoKey == -2

\* raw transcript texts the STT listener delivers
Texts ==
    { <<>>,                                          \* ""
      <<"u","m","m">>,                               \* "umm"
      <<"S","t","o","p","!">>,                       \* "Stop!"
      <<"u","m","m",","," ","s","t","o","p">>,       \* "umm, stop"
      <<" ","g","o"," ","u","h"," ","o","n">>,       \* " go uh on"
      <<"s","h","u","t"," ","u","p">>,               \* "shut up"
      <<"?","!">>,                                   \* "?!"
      <<" ","\t">> }                                 \* " \t"

\* the arguments `confidence` (in hundredths) and `words` (the per-word
\* confidences; empty: no `words` argument)
Confidences ==
    { <<NoConf, <<>>>>, <<20, <<>>>>, <<35, <<>>>>, <<20, <<NotADict, 10, 60>>>> }

\* lists handed to update_ignored_words / update_force_stop_words
IgnoredUpdates == { <<<<"U","m","m">>, <<"S","T","O","P">>>> }
ForceStopUpdates == { <<<<"G","o">>>> }

(***************************************************************************)
(* State.                                                                  *)
(***************************************************************************)
VARIABLES
    ignored_words,              \* FillerInterruptHandler.ignored_words
    force_stop_words,           \* FillerInterruptHandler.force_stop_words
    ignore_if_confidence_below, \* FillerInterruptHandler.ignore_if_confidence_below
    min_confidence_to_consider, \* FillerInterruptHandler.min_confidence_to_consider
    supplied,                   \* history: the word lists last given to the handler
    agent_speaking,             \* FillerInterruptHandler.agent_speaking
    lock_locked,                \* FillerInterruptHandler.lock: held
    lock_waiters,               \* FillerInterruptHandler.lock: tasks waiting, FIFO
    callbacks,                  \* FillerInterruptHandler._callbacks
    task,                       \* the handle_transcript tasks, by arrival number
    delivered,                  \* transcript events delivered so far
    ready,                      \* the event loop's queue of tasks to resume
    running,                    \* the task that holds the event loop, 0 if none
    turn,                       \* the on_user_turn_completed calls, by arrival number
    is_speaking,                \* Transcriber._is_speaking
    tts,                        \* Transcriber.tts is set (the TTS was initialised)
    last_check,                 \* the last call of _check_interruption: text, result
    sessions,                   \* MultiUserTranscriber._sessions: identity -> session
    agents,                     \* MultiUserTranscriber._agents: identity -> agent
    tasks,                      \* MultiUserTranscriber._tasks
    setup,                      \* the _start_session tasks with the session each made
    shutdown,                   \* the call of MultiUserTranscriber.aclose
    in_room,                    \* the room: the participants that are connected
    joins                       \* the room: how often each participant has joined

handlerVars == <<ignored_words, force_stop_words, ignore_if_confidence_below,
                 min_confidence_to_consider, supplied, agent_speaking,
                 lock_locked, lock_waiters, callbacks>>
loopVars == <<task, delivered, ready, running>>
turnVars == <<turn, is_speaking, tts, last_check>>
registryVars == <<sessions, agents, tasks, setup, shutdown, in_room, joins>>
vars == <<handlerVars, loopVars, turnVars, registryVars>>

Categories == {"valid_interruption", "ignored_filler", "speech_registered"}

\* a task slot with no live handle_transcript call
NoTask ==
    [pc |-> "none", text |-> <<>>, confidence |-> NoConf, words |-> <<>>,
     tokens |-> <<>>, avg_conf |-> 0, agent_speaking |-> FALSE,
     category |-> "", reason |-> "", non_ignored |-> <<>>, invoked |-> 0,
     unawaited |-> 0, cfg |-> <<{}, {}>>, mixed |-> FALSE]

\* a call that has returned ("skipped": empty text, "done": after dispatch)
\* or ended with an exception ("failed")
Ended(how) == [NoTask EXCEPT !.pc = how]

\* a faulty variant of EndPcs: a task that ends with an exception keeps the
\* event loop
EndPcsReturnOnly == {"skipped", "done"}

EndPcs == {"skipped", "done", "failed"}

Tasks == 1..MaxEvents

Turns == 1..MaxTurns

Setups == 1..MaxSetups

Identities == {"alice", "bob"}

\* a _start_session task that has not been created.  `session` is the state
\* of the AgentSession the task makes; `dclose` and `gclose` are the
\* _close_session calls for that session made by on_participant_disconnected
\* and by aclose
NoSetup ==
    [pc |-> "none", identity |-> "", cancel |-> FALSE, session |-> "none",
     dclose |-> "none", gclose |-> "none"]

\* MultiUserTranscriber.__init__, and nobody in the room
RegistryIdle ==
    /\ sessions = [p \in Identities |-> 0]
    /\ agents = [p \in Identities |-> 0]
    /\ tasks = {}
    /\ setup = [k \in Setups |-> NoSetup]
    /\ shutdown = [pc |-> "none", tasks |-> {}, sessions |-> {}]
    /\ in_room = [p \in Identities |-> FALSE]
    /\ joins = [p \in Identities |-> 0]

\* _check_interruption has not been called
NoCheck == [checked |-> FALSE, text |-> <<>>, result |-> FALSE]

(***************************************************************************)
(* FillerInterruptHandler.__init__, followed by the three reactions        *)
(* _start_session registers.  `ignored_words or DEFAULT_IGNORED_WORDS`     *)
(* takes the default list when the argument is None and also when it is an *)
(* empty list; float() keeps whatever number it is given.                  *)
(***************************************************************************)
\* an Optional[Iterable[str]] argument: absent (None), or a list
None == [given |-> FALSE, list |-> <<>>]
Given(list) == [given |-> TRUE, list |-> list]

\* the truth value Python's `or` sees in the argument
Truthy(arg) == arg.given /\ arg.list # <<>>

Constructed(ignored, force_stop, min_confidence, ignore_below) ==
    /\ ignored_words =
         LowerSet(IF Truthy(ignored) THEN ignored.list ELSE DEFAULT_IGNORED_WORDS)
    /\ force_stop_words =
         LowerSet(IF Truthy(force_stop) THEN force_stop.list
                  ELSE DEFAULT_FORCE_STOP_WORDS)
    /\ supplied = [ignored |-> ignored, force_stop |-> force_stop]
    /\ min_confidence_to_consider = min_confidence
    /\ ignore_if_confidence_below = ignore_below
    /\ agent_speaking = FALSE
    /\ lock_locked = FALSE
    /\ lock_waiters = <<>>
    /\ callbacks = [c \in Categories |-> <<"app">>]

\* no transcript event has been delivered
LoopIdle ==
    /\ task = [t \in Tasks |-> NoTask]
    /\ delivered = 0
    /\ ready = <<>>
    /\ running = 0

\* Transcriber.__init__ (no turn has completed) with the working TTS
TurnIdle ==
    /\ turn = [u \in Turns |-> "none"]
    /\ is_speaking = FALSE
    /\ tts = TRUE
    /\ last_check = NoCheck

\* the handler as _start_session constructs it
Init ==
    /\ Constructed(Given(SessionIgnoredWords), Given(SessionForceStopWords),
                   DefaultMinConfidence, SessionIgnoreBelow)
    /\ LoopIdle
    /\ TurnIdle
    /\ RegistryIdle

(***************************************************************************)
(* The event loop.                                                         *)
(***************************************************************************)
\* a faulty variant of Schedule: the newest task runs first
ScheduleFirst(q, t) == <<t>> \o q

\* asyncio.create_task: the new task goes to the end of the loop's queue
Schedule(q, t) == Append(q, t)

\* the loop resumes t: t already holds the loop, or the loop is free and t
\* is first in its queue
Runs(t) == running = t \/ (running = 0 /\ ready # <<>> /\ Head(ready) = t)

\* the loop's queue once t has been taken from it
Rest(t) == IF running = t THEN ready ELSE Tail(ready)

\* faulty variants of YieldPoints: an await that suspends before each
\* reaction is called; an await that suspends between the checks
YieldBeforeDispatch == {"dispatch"}
YieldBetweenChecks == {"conf_ok", "no_force_stop"}

\* the points of handle_transcript, other than a blocked lock.acquire(), at
\* which the coroutine gives the loop to other tasks: none.  After the lock
\* (lines 116-154) there is no await, and `async with self.lock` itself
\* suspends only when the lock is taken.
YieldPoints == {}

\* t has reached pc p and the loop's queue is q
Proceed(t, p, q) ==
    IF p \in EndPcs \cup {"wait_lock"}
    THEN running' = 0 /\ ready' = q
    ELSE IF p \in YieldPoints
    THEN running' = 0 /\ ready' = Append(q, t)
    ELSE running' = t /\ ready' = q

\* asyncio.Lock.acquire() returns at once when the lock is free and nobody waits
LockFree == ~lock_locked /\ lock_waiters = <<>>

\* the loop runs none of the modelled tasks: other code of the loop can run
LoopFree == running = 0

(***************************************************************************)
(* The STT listener: one task per transcript event.                        *)
(***************************************************************************)
\* The event's text and confidence are arguments of the coroutine and are
\* first looked at by its first step (handle_transcript_begin), which is
\* where the model draws them.
on_transcript_event ==
    /\ LoopFree
    /\ delivered < MaxEvents
    /\ delivered' = delivered + 1
    /\ task' = [task EXCEPT ![delivered + 1].pc = "ready"]
    /\ ready' = Schedule(ready, delivered + 1)
    /\ UNCHANGED <<handlerVars, running>>
    /\ UNCHANGED <<turnVars, registryVars>>

(***************************************************************************)
(* FillerInterruptHandler: configuration, speaking state, registration.    *)
(***************************************************************************)
\* async with self.lock: self.agent_speaking = speaking
set_agent_speaking(speaking) ==
    /\ LoopFree
    /\ LockFree
    /\ agent_speaking' = speaking
    /\ UNCHANGED <<ignored_words, force_stop_words, ignore_if_confidence_below,
                   min_confidence_to_consider, supplied,
                   lock_locked, lock_waiters, callbacks, loopVars>>
    /\ UNCHANGED <<turnVars, registryVars>>

\* async with self.lock: self.ignored_words = set(w.lower() for w in new_list)
update_ignored_words(new_list) ==
    /\ LoopFree
    /\ LockFree
    /\ ignored_words' = LowerSet(new_list)
    /\ supplied' = [supplied EXCEPT !.ignored = Given(new_list)]
    /\ UNCHANGED <<force_stop_words, ignore_if_confidence_below,
                   min_confidence_to_consider, agent_speaking,
                   lock_locked, lock_waiters, callbacks, loopVars>>
    /\ UNCHANGED <<turnVars, registryVars>>

\* async with self.lock: self.force_stop_words = set(w.lower() for w in new_list)
update_force_stop_words(new_list) ==
    /\ LoopFree
    /\ LockFree
    /\ force_stop_words' = LowerSet(new_list)
    /\ supplied' = [supplied EXCEPT !.force_stop = Given(new_list)]
    /\ UNCHANGED <<ignored_words, ignore_if_confidence_below,
                   min_confidence_to_consider, agent_speaking,
                   lock_locked, lock_waiters, callbacks, loopVars>>
    /\ UNCHANGED <<turnVars, registryVars>>

\* the reactions registered besides the three of _start_session
Registered ==
    Len(callbacks["valid_interruption"]) + Len(callbacks["ignored_filler"])
      + Len(callbacks["speech_registered"]) - 3

\* self._callbacks[category].append(cb), for a reaction other than the ones
\* _start_session registers
Register(category) ==
    /\ LoopFree
    /\ Registered < MaxCallbacks
    /\ callbacks' = [callbacks EXCEPT ![category] = Append(@, "ext")]
    /\ UNCHANGED <<ignored_words, force_stop_words, ignore_if_confidence_below,
                   min_confidence_to_consider, supplied,
                   agent_speaking, lock_locked, lock_waiters, loopVars>>
    /\ UNCHANGED <<turnVars, registryVars>>

on_valid_interruption == Register("valid_interruption")
on_ignored_filler == Register("ignored_filler")
on_speech_registered == Register("speech_registered")

(***************************************************************************)
(* FillerInterruptHandler.handle_transcript.                               *)
(***************************************************************************)
RECURSIVE SumSeq(_)
SumSeq(s) == IF s = <<>> THEN 0 ELSE Head(s) + SumSeq(Tail(s))

\* [w.get("confidence", 1.0) for w in words if isinstance(w, dict)]
DictConfidences(words) ==
    LET dicts == SelectSeq(words, LAMBDA w : w # NotADict)
    IN  [i \in 1..Len(dicts) |-> IF dicts[i] = NoKey THEN 100 ELSE dicts[i]]

\* the overall confidence: the scalar (1.0 when absent), replaced by the mean
\* of the per-word confidences when there are any.  The word lists of the
\* model have exact means.
AvgConf(confidence, words) ==
    LET confidences == DictConfidences(words)
    IN  IF words # <<>> /\ confidences # <<>>
        THEN SumSeq(confidences) \div Len(confidences)
        ELSE IF confidence # NoConf THEN confidence ELSE 100

\* a faulty variant of PolicyApplies: the policy applies when quiet too
PolicyAppliesAlways(copy) == TRUE

\* line 118, `if agent_speaking:` on the copy made under the lock: the
\* filler policy applies
PolicyApplies(copy) == copy

\* a faulty variant of LowConfidence: <= for <
LowConfidenceInclusive(avg_conf, threshold) == avg_conf <= threshold

\* line 122: avg_conf < self.ignore_if_confidence_below
LowConfidence(avg_conf, threshold) == avg_conf < threshold

\* a faulty variant of has_force_stop: all() for any()
HasForceStopAll(tokens, stop_words) ==
    tokens # <<>> /\ \A i \in 1..Len(tokens) : tokens[i] \in stop_words

\* any(t in self.force_stop_words for t in tokens)
has_force_stop(tokens, stop_words) ==
    \E i \in 1..Len(tokens) : tokens[i] \in stop_words

\* faulty variants of non_ignored_tokens: every token is reported once one
\* is not ignored; `in` for `not in`
NonIgnoredUnfiltered(tokens, ignored) ==
    IF \E i \in 1..Len(tokens) : tokens[i] \notin ignored THEN tokens ELSE <<>>
NonIgnoredInverted(tokens, ignored) ==
    SelectSeq(tokens, LAMBDA tok : tok \in ignored)

\* [t for t in tokens if t not in self.ignored_words]
non_ignored_tokens(tokens, ignored) ==
    SelectSeq(tokens, LAMBDA tok : tok \notin ignored)

\* what a reaction does when it is called: the reactions of _start_session
\* log or create a coroutine object and return; any other may return or raise
CallbackOutcomes(cb) ==
    IF cb = "app" THEN {"returned"} ELSE {"returned", "raised"}

\* The valid-interruption reaction of _start_session is
\*     lambda t, m: self._handle_interruption(participant.identity, t, m)
\* and _handle_interruption is an async def: calling it makes a coroutine
\* object, which the for loop of handle_transcript drops.  Its body (look the
\* agent up, await agent.stop_speaking()) never runs.
CoroutinesCreated(category, cb) ==
    IF category = "valid_interruption" /\ cb = "app" THEN 1 ELSE 0

\* release(): the lock is free again and the first waiter is woken, i.e.
\* its task is put on the loop's queue
WakeUp(q) ==
    IF \E i \in 1..Len(lock_waiters) : task[lock_waiters[i]].pc = "wait_lock"
    THEN Append(q, lock_waiters[CHOOSE i \in 1..Len(lock_waiters) :
                     /\ task[lock_waiters[i]].pc = "wait_lock"
                     /\ \A j \in 1..(i - 1) : task[lock_waiters[j]].pc # "wait_lock"])
    ELSE q

Woken(tk) ==
    IF \E i \in 1..Len(lock_waiters) : tk[lock_waiters[i]].pc = "wait_lock"
    THEN [tk EXCEPT ![lock_waiters[CHOOSE i \in 1..Len(lock_waiters) :
                     /\ tk[lock_waiters[i]].pc = "wait_lock"
                     /\ \A j \in 1..(i - 1) : tk[lock_waiters[j]].pc # "wait_lock"]].pc
                 = "woken"]
    ELSE tk

\* lines 100-114: strip the text, return if it is empty, tokenize, average the
\* confidence, then acquire the lock (or queue for it and suspend); also the
\* resumption of a queued acquire
handle_transcript_begin(t, raw, confidence, words) ==
    /\ Runs(t)
    /\ task[t].pc \in {"ready", "woken"}
    /\ LET r == task[t]
           text == Strip(raw)
           r2 == [r EXCEPT !.text = text, !.confidence = confidence,
                           !.words = words, !.tokens = tokenize(text),
                           !.avg_conf = AvgConf(confidence, words)]
       IN  IF r.pc = "woken"
           THEN /\ lock_waiters' = SelectSeq(lock_waiters, LAMBDA x : x # t)
                /\ lock_locked' = TRUE
                /\ task' = [task EXCEPT ![t].pc = "locked"]
                /\ Proceed(t, "locked", Rest(t))
           ELSE IF text = <<>>
           THEN /\ task' = [task EXCEPT ![t] = Ended("skipped")]
                /\ Proceed(t, "skipped", Rest(t))
                /\ UNCHANGED <<lock_locked, lock_waiters>>
           ELSE IF LockFree
           THEN /\ lock_locked' = TRUE
                /\ task' = [task EXCEPT ![t] = [r2 EXCEPT !.pc = "locked"]]
                /\ Proceed(t, "locked", Rest(t))
                /\ UNCHANGED lock_waiters
           ELSE /\ lock_waiters' = Append(lock_waiters, t)
                /\ task' = [task EXCEPT ![t] = [r2 EXCEPT !.pc = "wait_lock"]]
                /\ Proceed(t, "wait_lock", Rest(t))
                /\ UNCHANGED lock_locked
    /\ UNCHANGED <<ignored_words, force_stop_words, ignore_if_confidence_below,
                   min_confidence_to_consider, supplied,
                   agent_speaking, callbacks, delivered>>
    /\ UNCHANGED <<turnVars, registryVars>>

\* lines 114-118: under the lock, copy self.agent_speaking; leave the lock;
\* branch on the copy
handle_transcript_read(t) ==
    /\ Runs(t)
    /\ task[t].pc = "locked"
    /\ LET filter == PolicyApplies(agent_speaking)
           p == IF filter THEN "speaking" ELSE "dispatch"
           r == [task[t] EXCEPT
                   !.pc = p,
                   !.agent_speaking = agent_speaking,
                   !.category = IF filter THEN "" ELSE "speech_registered",
                   !.reason = IF filter THEN "" ELSE "agent_quiet"]
       IN  /\ task' = Woken([task EXCEPT ![t] = r])
           /\ Proceed(t, p, WakeUp(Rest(t)))
    /\ lock_locked' = FALSE
    /\ UNCHANGED <<ignored_words, force_stop_words, ignore_if_confidence_below,
                   min_confidence_to_consider, supplied,
                   agent_speaking, lock_waiters, callbacks, delivered>>
    /\ UNCHANGED <<turnVars, registryVars>>

\* lines 121-126: avg_conf < self.ignore_if_confidence_below
handle_transcript_confidence(t) ==
    /\ Runs(t)
    /\ task[t].pc = "speaking"
    /\ LET low == LowConfidence(task[t].avg_conf, ignore_if_confidence_below)
           p == IF low THEN "dispatch" ELSE "conf_ok"
           r == [task[t] EXCEPT
                   !.pc = p,
                   !.cfg = <<ignored_words, force_stop_words>>,
                   !.category = IF low THEN "ignored_filler" ELSE "",
                   !.reason = IF low THEN "low_confidence" ELSE ""]
       IN  /\ task' = [task EXCEPT ![t] = r]
           /\ Proceed(t, p, Rest(t))
    /\ UNCHANGED <<handlerVars, delivered>>
    /\ UNCHANGED <<turnVars, registryVars>>

\* lines 128-134: any token in self.force_stop_words
handle_transcript_force_stop(t) ==
    /\ Runs(t)
    /\ task[t].pc = "conf_ok"
    /\ LET stop == has_force_stop(task[t].tokens, force_stop_words)
           p == IF stop THEN "dispatch" ELSE "no_force_stop"
           r == [task[t] EXCEPT
                   !.pc = p,
                   !.mixed = @ \/ task[t].cfg # <<ignored_words, force_stop_words>>,
                   !.category = IF stop THEN "valid_interruption" ELSE "",
                   !.reason = IF stop THEN "force_stop_word" ELSE ""]
       IN  /\ task' = [task EXCEPT ![t] = r]
           /\ Proceed(t, p, Rest(t))
    /\ UNCHANGED <<handlerVars, delivered>>
    /\ UNCHANGED <<turnVars, registryVars>>

\* lines 136-149: the tokens not in self.ignored_words
handle_transcript_filler(t) ==
    /\ Runs(t)
    /\ task[t].pc = "no_force_stop"
    /\ LET rest == non_ignored_tokens(task[t].tokens, ignored_words)
           r == [task[t] EXCEPT
                   !.pc = "dispatch",
                   !.mixed = @ \/ task[t].cfg # <<ignored_words, force_stop_words>>,
                   !.category = IF rest = <<>> THEN "ignored_filler"
                                ELSE "valid_interruption",
                   !.reason = IF rest = <<>> THEN "filler_only" ELSE "mixed_tokens",
                   !.non_ignored = rest]
       IN  /\ task' = [task EXCEPT ![t] = r]
           /\ Proceed(t, "dispatch", Rest(t))
    /\ UNCHANGED <<handlerVars, delivered>>
    /\ UNCHANGED <<turnVars, registryVars>>

\* the for loops over self._callbacks[category]: call the next reaction; an
\* exception it raises leaves the loop and handle_transcript; after the last
\* reaction handle_transcript returns
handle_transcript_dispatch(t) ==
    /\ Runs(t)
    /\ task[t].pc = "dispatch"
    /\ LET r == task[t]
           cbs == callbacks[r.category]
       IN  IF r.invoked = Len(cbs)
           THEN /\ task' = [task EXCEPT ![t] = Ended("done")]
                /\ Proceed(t, "done", Rest(t))
           ELSE \E out \in CallbackOutcomes(cbs[r.invoked + 1]) :
                  IF out = "raised"
                  THEN /\ task' = [task EXCEPT ![t] = Ended("failed")]
                       /\ Proceed(t, "failed", Rest(t))
                  ELSE /\ task' = [task EXCEPT
                                    ![t].invoked = @ + 1,
                                    ![t].unawaited =
                                        @ + CoroutinesCreated(r.category,
                                                              cbs[r.invoked + 1])]
                       /\ Proceed(t, "dispatch", Rest(t))
    /\ UNCHANGED <<handlerVars, delivered>>
    /\ UNCHANGED <<turnVars, registryVars>>

(***************************************************************************)
(* Specification.                                                          *)
(***************************************************************************)
Next ==
    \/ on_transcript_event
    \/ \E speaking \in BOOLEAN : set_agent_speaking(speaking)
    \/ \E new_list \in IgnoredUpdates : update_ignored_words(new_list)
    \/ \E new_list \in ForceStopUpdates : update_force_stop_words(new_list)
    \/ on_valid_interruption
    \/ on_ignored_filler
    \/ on_speech_registered
    \/ \E t \in Tasks, raw \in Texts, c \in Confidences :
         handle_transcript_begin(t, raw, c[1], c[2])
    \/ \E t \in Tasks : handle_transcript_read(t)
    \/ \E t \in Tasks : handle_transcript_confidence(t)
    \/ \E t \in Tasks : handle_transcript_force_stop(t)
    \/ \E t \in Tasks : handle_transcript_filler(t)
    \/ \E t \in Tasks : handle_transcript_dispatch(t)

Spec == Init /\ [][Next]_vars

(***************************************************************************)
(* The handler constructed with other thresholds.                          *)
(***************************************************************************)
\* transcript events delivered to a handler constructed with other thresholds
MaxCtorEvents == 1

\* the arguments min_confidence_to_consider and ignore_if_confidence_below,
\* in hundredths: the defaults, and values below 0.0 and above 1.0
ThresholdArgs ==
    { <<DefaultMinConfidence, DefaultIgnoreBelow>>,
      <<DefaultMinConfidence, -10>>, <<DefaultMinConfidence, 150>>,
      <<-50, DefaultIgnoreBelow>>, <<150, DefaultIgnoreBelow>> }

\* the arguments ignored_words and force_stop_words: none, an empty list for
\* one of them, a list for each
WordArgs ==
    { <<None, None>>,
      <<Given(<<>>), None>>,
      <<None, Given(<<>>)>>,
      <<Given(<<<<"U","h">>>>), Given(<<<<"S","t","o","p">>>>)>> }

\* FillerInterruptHandler(...) with thresholds of ThresholdArgs and default
\* word lists, or with word lists of WordArgs and default thresholds
CtorInit ==
    /\ \/ \E a \in ThresholdArgs : Constructed(None, None, a[1], a[2])
       \/ \E w \in WordArgs :
            Constructed(w[1], w[2], DefaultMinConfidence, DefaultIgnoreBelow)
    /\ LoopIdle
    /\ TurnIdle
    /\ RegistryIdle

\* the operations of Next, on at most MaxCtorEvents transcript events, and
\* update_ignored_words with an empty list
CtorNext ==
    \/ delivered < MaxCtorEvents /\ on_transcript_event
    \/ \E speaking \in BOOLEAN : set_agent_speaking(speaking)
    \/ \E new_list \in IgnoredUpdates \cup {<<>>} : update_ignored_words(new_list)
    \/ \E new_list \in ForceStopUpdates : update_force_stop_words(new_list)
    \/ on_valid_interruption
    \/ on_ignored_filler
    \/ on_speech_registered
    \/ \E t \in Tasks, raw \in Texts, c \in Confidences :
         handle_transcript_begin(t, raw, c[1], c[2])
    \/ \E t \in Tasks : handle_transcript_read(t)
    \/ \E t \in Tasks : handle_transcript_confidence(t)
    \/ \E t \in Tasks : handle_transcript_force_stop(t)
    \/ \E t \in Tasks : handle_transcript_filler(t)
    \/ \E t \in Tasks : handle_transcript_dispatch(t)

CtorSpec == CtorInit /\ [][CtorNext]_vars

(***************************************************************************)
(* Transcriber: the agent of one participant.                              *)
(*                                                                         *)
(* on_user_turn_completed runs once per completed user turn.  It suspends  *)
(* at one place, `await self._agent_session.say(...)`, where it waits for  *)
(* the playback to end; the session may complete another user turn in the  *)
(* meantime.  Every other await of it (_check_interruption, stop_speaking, *)
(* handler.set_agent_speaking with the lock free) returns without          *)
(* suspending.  The playback itself belongs to the AgentSession: it ends   *)
(* or fails when the session says so.                                      *)
(***************************************************************************)
\* the completed user turns' transcripts (new_message.text_content)
TurnTexts ==
    { <<"u","m","m">>,                               \* "umm"
      <<"u","m","m",".">>,                           \* "umm."
      <<"S","t","o","p","!">>,                       \* "Stop!"
      <<" ","g","o"," ","u","h"," ","o","n">>,       \* " go uh on"
      <<"s","h","u","t"," ","u","p">>,               \* "shut up"
      <<"?","!">> }                                  \* "?!"

\* the lists written in _check_interruption
CheckForceStopWords ==
    <<w_stop, w_wait, w_pause, w_end, w_terminate, w_shut_up, w_be_quiet, w_halt>>
CheckIgnoredWords == <<w_uh, w_umm, w_hmm, w_haan, w_uhh, w_uhm>>

\* `w in s` on strings
IsSubstring(w, s) ==
    \E i \in 0..(Len(s) - Len(w)) : SubSeq(s, i + 1, i + Len(w)) = w

\* Transcriber._check_interruption with a handler present: a force-stop word
\* occurs somewhere in the lower-cased text, or a whitespace-separated piece
\* of it is not one of the ignored words
check_interruption(text) ==
    LET text_lower == Lower(text)
        tokens == Split(text_lower, <<>>)
    IN  \/ \E i \in 1..Len(CheckForceStopWords) :
              IsSubstring(CheckForceStopWords[i], text_lower)
        \/ \E i \in 1..Len(tokens) : tokens[i] \notin Range(CheckIgnoredWords)

\* a faulty variant of SpeakingAfterError: the except block resets nothing
SpeakingAfterErrorKept(speaking) == speaking

\* lines 95-100, the except block: self._is_speaking = False and
\* handler.set_agent_speaking(False)
SpeakingAfterError(speaking) == FALSE

\* what the call `self._agent_session.say(response_text)` and its await do
SayOutcomes == {"suspends", "raises"}

\* the turns are numbered in the order they complete
NextTurn(u) == turn[u] = "none" /\ \A v \in Turns : v < u => turn[v] # "none"

\* on_user_turn_completed from its start to its return or to the await of
\* the playback
on_user_turn_completed(u, text) ==
    /\ LoopFree
    /\ LockFree
    /\ NextTurn(u)
    /\ IF is_speaking
       THEN LET should_interrupt == check_interruption(text)
            IN  /\ last_check' =
                     [checked |-> TRUE, text |-> text, result |-> should_interrupt]
                /\ IF should_interrupt
                   THEN \* stop_speaking(), raise StopResponse()
                        /\ is_speaking' = FALSE
                        /\ turn' = [turn EXCEPT ![u] = "interrupted"]
                   ELSE \* "already_speaking": the warning, raise StopResponse()
                        /\ turn' = [turn EXCEPT ![u] = "not_spoken"]
                        /\ UNCHANGED is_speaking
                /\ UNCHANGED agent_speaking
       ELSE IF tts
       THEN \E out \in SayOutcomes :
              IF out = "suspends"
              THEN /\ is_speaking' = TRUE
                   /\ agent_speaking' = TRUE
                   /\ turn' = [turn EXCEPT ![u] = "saying"]
                   /\ UNCHANGED last_check
              ELSE /\ is_speaking' = SpeakingAfterError(TRUE)
                   /\ agent_speaking' = SpeakingAfterError(TRUE)
                   /\ turn' = [turn EXCEPT ![u] = "say_failed"]
                   /\ UNCHANGED last_check
       ELSE \* "tts" is missing: the warning, raise StopResponse()
            /\ turn' = [turn EXCEPT ![u] = "not_spoken"]
            /\ UNCHANGED <<is_speaking, agent_speaking, last_check>>
    /\ UNCHANGED <<ignored_words, force_stop_words, ignore_if_confidence_below,
                   min_confidence_to_consider, supplied, lock_locked, lock_waiters,
                   callbacks, loopVars, registryVars, tts>>

\* lines 82-87: the awaited playback has ended
say_returns(u) ==
    /\ LoopFree
    /\ LockFree
    /\ turn[u] = "saying"
    /\ is_speaking' = FALSE
    /\ agent_speaking' = FALSE
    /\ turn' = [turn EXCEPT ![u] = "said"]
    /\ UNCHANGED <<ignored_words, force_stop_words, ignore_if_confidence_below,
                   min_confidence_to_consider, supplied, lock_locked, lock_waiters,
                   callbacks, loopVars, registryVars, tts, last_check>>

\* lines 95-100: the awaited playback has raised
say_raises(u) ==
    /\ LoopFree
    /\ LockFree
    /\ turn[u] = "saying"
    /\ is_speaking' = SpeakingAfterError(is_speaking)
    /\ agent_speaking' = SpeakingAfterError(agent_speaking)
    /\ turn' = [turn EXCEPT ![u] = "say_failed"]
    /\ UNCHANGED <<ignored_words, force_stop_words, ignore_if_confidence_below,
                   min_confidence_to_consider, supplied, lock_locked, lock_waiters,
                   callbacks, loopVars, registryVars, tts, last_check>>

\* the agent of a session whose TTS was initialised or not (lines 184-193)
TurnInit ==
    /\ Constructed(Given(SessionIgnoredWords), Given(SessionForceStopWords),
                   DefaultMinConfidence, SessionIgnoreBelow)
    /\ LoopIdle
    /\ turn = [u \in Turns |-> "none"]
    /\ is_speaking = FALSE
    /\ tts \in BOOLEAN
    /\ last_check = NoCheck
    /\ RegistryIdle

TurnNext ==
    \/ \E u \in Turns, text \in TurnTexts : on_user_turn_completed(u, text)
    \/ \E u \in Turns : say_returns(u)
    \/ \E u \in Turns : say_raises(u)

TurnSpec == TurnInit /\ [][TurnNext]_vars

(***************************************************************************)
(* MultiUserTranscriber: the registry of per-participant sessions.         *)
(*                                                                         *)
(* The room delivers connect and disconnect events; the two handlers are   *)
(* plain functions that run to their end.  _start_session, _close_session  *)
(* and aclose are coroutines; each action below is one of them running     *)
(* from one await that suspends to the next.  The session a _start_session *)
(* task creates is known by the task's number.                             *)
(***************************************************************************)
\* what an awaited call of a collaborator (RoomIO.start, AgentSession.start,
\* drain, aclose) does when it ends
AwaitOutcomes == {"returns", "raises"}

\* the _start_session task has been created and has not ended
InFlight(k) == setup[k].pc \in {"scheduled", "room_io_start", "session_start"}

\* the two _close_session calls a session can get
Closers == {"dclose", "gclose"}

\* the _close_session call is between its start and its end
Closing(k, c) == setup[k][c] \in {"drain", "aclose"}

\* the next unused task number
NewSetup(k) == setup[k].pc = "none" /\ \A j \in Setups : j < k => setup[j].pc # "none"

\* the room reports p as connected: on the participant's arrival, or once
\* more for a participant that is in the room already (the event and the
\* entrypoint's loop over remote_participants)
on_participant_connected(p) ==
    /\ in_room' = [in_room EXCEPT ![p] = TRUE]
    /\ joins' = [joins EXCEPT ![p] = IF in_room[p] THEN @ ELSE @ + 1]
    /\ IF sessions[p] # 0
       THEN UNCHANGED <<tasks, setup>>
       ELSE \E k \in Setups :
              /\ NewSetup(k)
              /\ setup' = [setup EXCEPT ![k].pc = "scheduled", ![k].identity = p]
              /\ tasks' = tasks \cup {k}
    /\ UNCHANGED <<sessions, agents, shutdown, handlerVars, loopVars, turnVars>>

\* the room reports that p has left
on_participant_disconnected(p) ==
    /\ in_room[p]
    /\ in_room' = [in_room EXCEPT ![p] = FALSE]
    /\ sessions' = [sessions EXCEPT ![p] = 0]
    /\ agents' = [agents EXCEPT ![p] = 0]
    /\ IF sessions[p] # 0
       THEN setup' = [setup EXCEPT ![sessions[p]].dclose = "drain"]
       ELSE UNCHANGED setup
    /\ UNCHANGED <<tasks, shutdown, joins, handlerVars, loopVars, turnVars>>

\* the task ends (return, exception or cancellation): its done callback
\* takes it out of _tasks
TaskDone(k) == tasks' = tasks \ {k}

\* lines 171-181: the session and its RoomIO are made, room_io.start() is
\* awaited; a task cancelled before its first step never runs
start_session_begin(k) ==
    /\ setup[k].pc = "scheduled"
    /\ IF setup[k].cancel
       THEN /\ setup' = [setup EXCEPT ![k].pc = "cancelled"]
            /\ TaskDone(k)
       ELSE /\ setup' = [setup EXCEPT ![k].pc = "room_io_start",
                                      ![k].session = "created"]
            /\ UNCHANGED tasks
    /\ UNCHANGED <<sessions, agents, shutdown, in_room, joins,
                   handlerVars, loopVars, turnVars>>

\* lines 181-216: room_io.start() has ended; the TTS, the handler and the
\* agent are made and session.start(agent) is awaited.  A pending
\* cancellation is raised at the await and is not an Exception, so the
\* except block does not take it.
start_session_room_io(k) ==
    /\ setup[k].pc = "room_io_start"
    /\ IF setup[k].cancel
       THEN /\ setup' = [setup EXCEPT ![k].pc = "cancelled"]
            /\ TaskDone(k)
       ELSE \E out \in AwaitOutcomes :
              IF out = "raises"
              THEN /\ setup' = [setup EXCEPT ![k].pc = "error"]
                   /\ TaskDone(k)
              ELSE /\ setup' = [setup EXCEPT ![k].pc = "session_start",
                                             ![k].session = "starting"]
                   /\ UNCHANGED tasks
    /\ UNCHANGED <<sessions, agents, shutdown, in_room, joins,
                   handlerVars, loopVars, turnVars>>

\* lines 216-237: session.start() has ended; the session and the agent are
\* stored under the participant's identity and the task returns
start_session_started(k) ==
    /\ setup[k].pc = "session_start"
    /\ TaskDone(k)
    /\ IF setup[k].cancel
       THEN /\ setup' = [setup EXCEPT ![k].pc = "cancelled"]
            /\ UNCHANGED <<sessions, agents>>
       ELSE \E out \in AwaitOutcomes :
              IF out = "raises"
              THEN /\ setup' = [setup EXCEPT ![k].pc = "error"]
                   /\ UNCHANGED <<sessions, agents>>
              ELSE /\ setup' = [setup EXCEPT ![k].pc = "registered",
                                             ![k].session = "started"]
                   /\ sessions' = [sessions EXCEPT ![setup[k].identity] = k]
                   /\ agents' = [agents EXCEPT ![setup[k].identity] = k]
    /\ UNCHANGED <<shutdown, in_room, joins, handlerVars, loopVars, turnVars>>

\* _close_session: sess.drain() has ended; sess.aclose() is awaited, or the
\* except block logs the error and the call ends
close_session_drained(k, c) ==
    /\ setup[k][c] = "drain"
    /\ \E out \in AwaitOutcomes :
         setup' = [setup EXCEPT ![k][c] = IF out = "raises" THEN "done" ELSE "aclose"]
    /\ UNCHANGED <<sessions, agents, tasks, shutdown, in_room, joins,
                   handlerVars, loopVars, turnVars>>

\* _close_session: sess.aclose() has ended
close_session_closed(k, c) ==
    /\ setup[k][c] = "aclose"
    /\ \E out \in AwaitOutcomes :
         setup' = [setup EXCEPT
                     ![k][c] = "done",
                     ![k].session = IF out = "raises" THEN @ ELSE "closed"]
    /\ UNCHANGED <<sessions, agents, tasks, shutdown, in_room, joins,
                   handlerVars, loopVars, turnVars>>

\* aclose, line 150: _close_session is started for every session that is in
\* _sessions now and the calls are awaited together; with no session there
\* is nothing to wait for and aclose returns
Gather(su) ==
    LET registered == {sessions[p] : p \in Identities} \ {0}
    IN  /\ shutdown' = [shutdown EXCEPT
                          !.pc = IF registered = {} THEN "returned" ELSE "closing",
                          !.sessions = registered]
        /\ setup' = [k \in Setups |->
                       IF k \in registered
                       THEN [su[k] EXCEPT !.gclose = "drain"]
                       ELSE su[k]]

\* aclose, line 149: cancel_and_wait(*self._tasks) cancels the tasks that are
\* in _tasks now and waits for them to end; with no task there is nothing to
\* wait for and aclose goes on to line 150 at once
aclose_begin ==
    /\ shutdown.pc = "none"
    /\ IF tasks = {}
       THEN Gather(setup)
       ELSE /\ shutdown' = [shutdown EXCEPT !.pc = "cancelling", !.tasks = tasks]
            /\ setup' = [k \in Setups |->
                           IF k \in tasks
                           THEN [setup[k] EXCEPT !.cancel = TRUE]
                           ELSE setup[k]]
    /\ UNCHANGED <<sessions, agents, tasks, in_room, joins,
                   handlerVars, loopVars, turnVars>>

\* aclose: the cancelled tasks have ended
aclose_gather ==
    /\ shutdown.pc = "cancelling"
    /\ \A k \in shutdown.tasks : ~InFlight(k)
    /\ Gather(setup)
    /\ UNCHANGED <<sessions, agents, tasks, in_room, joins,
                   handlerVars, loopVars, turnVars>>

\* aclose returns: every _close_session call of the gather has ended
aclose_return ==
    /\ shutdown.pc = "closing"
    /\ \A k \in shutdown.sessions : setup[k].gclose = "done"
    /\ shutdown' = [shutdown EXCEPT !.pc = "returned"]
    /\ UNCHANGED <<sessions, agents, tasks, setup, in_room, joins,
                   handlerVars, loopVars, turnVars>>

RegistryInit ==
    /\ Constructed(Given(SessionIgnoredWords), Given(SessionForceStopWords),
                   DefaultMinConfidence, SessionIgnoreBelow)
    /\ LoopIdle
    /\ TurnIdle
    /\ RegistryIdle

RegistryNext ==
    \/ \E p \in Identities : on_participant_connected(p)
    \/ \E p \in Identities : on_participant_disconnected(p)
    \/ \E k \in Setups : start_session_begin(k)
    \/ \E k \in Setups : start_session_room_io(k)
    \/ \E k \in Setups : start_session_started(k)
    \/ \E k \in Setups, c \in Closers : close_session_drained(k, c)
    \/ \E k \in Setups, c \in Closers : close_session_closed(k, c)
    \/ aclose_begin
    \/ aclose_gather
    \/ aclose_return

RegistrySpec == RegistryInit /\ [][RegistryNext]_vars

(***************************************************************************)
(* Properties.                                                             *)
(*                                                                         *)
(* A call of handle_transcript has produced its outcome when it is at      *)
(* "dispatch": category and reason are fixed and `invoked` counts the      *)
(* reactions of that category called so far.  The call holds the loop from *)
(* its first step to its return, so the handler's fields in such a state   *)
(* are the ones the call decided with.                                     *)
(***************************************************************************)
Decided(t) == task[t].pc = "dispatch"

\* the call copied agent_speaking = TRUE and produced an outcome
DecidedSpeaking(t) == Decided(t) /\ task[t].agent_speaking

ContainsForceStop(t) ==
    \E i \in 1..Len(task[t].tokens) : task[t].tokens[i] \in force_stop_words

AllIgnored(t) ==
    \A i \in 1..Len(task[t].tokens) : task[t].tokens[i] \in ignored_words

AboveFloor(t) == task[t].avg_conf >= ignore_if_confidence_below

Outcome(t, category, reason) ==
    task[t].category = category /\ task[t].reason = reason

C2_WitnessAtThreshold ==
    \E t \in Tasks :
        /\ DecidedSpeaking(t)
        /\ task[t].words # <<>>
        /\ task[t].avg_conf = ignore_if_confidence_below
        /\ task[t].reason \in {"force_stop_word", "filler_only", "mixed_tokens"}

\* C3: a non-empty transcript processed while agent_speaking is false yields
\* Register whatever its content and confidence: the filler policy is entered
\* only with a copy of agent_speaking that is true, the reactions called are
\* the speech_registered ones, and no valid-interruption reaction (hence none
\* of its coroutines) and no ignored_filler reaction is called.
C3_QuietRegisters ==
    \A t \in Tasks :
        /\ task[t].pc \in {"speaking", "conf_ok", "no_force_stop"}
             => task[t].agent_speaking
        /\ (Decided(t) /\ ~task[t].agent_speaking)
             => /\ Outcome(t, "speech_registered", "agent_quiet")
                /\ task[t].unawaited = 0
                /\ task[t].invoked <= Len(callbacks["speech_registered"])

\* a low-confidence transcript with a force-stop word, taken while the agent
\* was quiet, has been registered and every speech_registered reaction called
C3_Witness ==
    \E t \in Tasks :
        /\ Decided(t)
        /\ ~task[t].agent_speaking
        /\ ContainsForceStop(t)
        /\ task[t].avg_conf < ignore_if_confidence_below
        /\ Outcome(t, "speech_registered", "agent_quiet")
        /\ task[t].invoked = Len(callbacks["speech_registered"])

\* C4 as claimed: while agent_speaking is true and the confidence is not
\* below the floor, a transcript whose tokens are all in ignored_words yields
\* Ignore with reason filler_only.
C4_FillerOnlyAlways ==
    \A t \in Tasks :
        (DecidedSpeaking(t) /\ AboveFloor(t) /\ AllIgnored(t))
            => Outcome(t, "ignored_filler", "filler_only")

\* C4 as amended: while agent_speaking is true and the confidence is not
\* below the floor, a transcript whose tokens are all in ignored_words and
\* none of which is in force_stop_words yields Ignore with reason filler_only,
\* and no valid-interruption reaction is called.
C4_FillerOnlyIgnored ==
    \A t \in Tasks :
        (DecidedSpeaking(t) /\ AboveFloor(t) /\ AllIgnored(t)
           /\ ~ContainsForceStop(t))
            => /\ Outcome(t, "ignored_filler", "filler_only")
               /\ task[t].unawaited = 0

\* "umm" at the threshold confidence has been ignored as filler
C4_Witness ==
    \E t \in Tasks :
        /\ DecidedSpeaking(t)
        /\ task[t].tokens = <<w_umm>>
        /\ AboveFloor(t)
        /\ Outcome(t, "ignored_filler", "filler_only")
        /\ task[t].invoked >= 1

\* sub consists of the entries of tokens that are not in ignored, in the
\* order they have in tokens
IsOrderedRest(sub, tokens, ignored) ==
    \E f \in [1..Len(sub) -> 1..Len(tokens)] :
        /\ \A i, j \in 1..Len(sub) : i < j => f[i] < f[j]
        /\ \A i \in 1..Len(sub) : sub[i] = tokens[f[i]]
        /\ {f[i] : i \in 1..Len(sub)}
             = {k \in 1..Len(tokens) : tokens[k] \notin ignored}

\* C5: while agent_speaking is true and the confidence is not below the
\* floor, a transcript without force-stop word and with a token outside
\* ignored_words yields Interrupt with reason mixed_tokens, reporting exactly
\* the tokens outside ignored_words in their original order.
C5_MixedTokensInterrupt ==
    \A t \in Tasks :
        (DecidedSpeaking(t) /\ AboveFloor(t) /\ ~ContainsForceStop(t)
           /\ ~AllIgnored(t))
            => /\ Outcome(t, "valid_interruption", "mixed_tokens")
               /\ IsOrderedRest(task[t].non_ignored, task[t].tokens, ignored_words)

\* " go uh on" has interrupted, reporting "go", "on"
C5_Witness ==
    \E t \in Tasks :
        /\ DecidedSpeaking(t)
        /\ task[t].tokens = <<<<"g","o">>, w_uh, <<"o","n">>>>
        /\ Outcome(t, "valid_interruption", "mixed_tokens")
        /\ task[t].non_ignored = <<<<"g","o">>, <<"o","n">>>>
        /\ task[t].invoked >= 1

\* every reaction of the outcome's category has been called and has returned
AllInvoked(t) ==
    Decided(t) /\ task[t].invoked = Len(callbacks[task[t].category])

\* C6: once handle_transcript has produced Interrupt for a session whose
\* agent_speaking was true and has called its valid-interruption reactions,
\* the stop-speaking command has run (no reaction coroutine is left unrun)
\* and the handler's agent_speaking is false.
C6_InterruptStopsSpeaking ==
    \A t \in Tasks :
        (DecidedSpeaking(t) /\ task[t].category = "valid_interruption"
           /\ AllInvoked(t))
            => /\ task[t].unawaited = 0
               /\ ~agent_speaking

\* C7: a dispatch ends only by handle_transcript returning, after every
\* reaction registered for the outcome's category has been called, in
\* registration order: no reaction's exception ends it early or leaves
\* handle_transcript.
C7_AllReactionsRun ==
    [][\A t \in Tasks :
          (task[t].pc = "dispatch" /\ task'[t].pc \in EndPcs)
              => /\ task'[t].pc = "done"
                 /\ task[t].invoked = Len(callbacks[task[t].category])]_vars

\* the call has copied agent_speaking and not yet returned
HoldsCopy(t) ==
    task[t].pc \in {"speaking", "conf_ok", "no_force_stop", "dispatch"}

\* C8: from the moment handle_transcript has copied agent_speaking until it
\* returns, through its checks and the calls of its reactions, the handler's
\* agent_speaking is the value copied: no set_agent_speaking takes effect in
\* between.
C8_CopyStillHolds ==
    \A t \in Tasks : HoldsCopy(t) => task[t].agent_speaking = agent_speaking

\* a call that copied agent_speaking = TRUE is calling its reactions while
\* another transcript event is queued behind it
C8_Witness ==
    \E t, u \in Tasks :
        /\ DecidedSpeaking(t)
        /\ task[t].invoked >= 1
        /\ task[u].pc = "ready"

\* the call has read the configuration: `cfg` is the pair of word sets its
\* first check saw
HoldsConfig(t) ==
    \/ task[t].pc \in {"conf_ok", "no_force_stop"}
    \/ Decided(t) /\ task[t].reason # "agent_quiet"

\* C9: every check of one handle_transcript call (confidence floor, force-stop
\* test, filler test) reads the same configuration: no update_ignored_words or
\* update_force_stop_words takes effect between the first check and the
\* return, so the decision uses one configuration throughout.
C9_OneConfiguration ==
    \A t \in Tasks :
        /\ ~task[t].mixed
        /\ HoldsConfig(t) => task[t].cfg = <<ignored_words, force_stop_words>>

\* after both updates, " go uh on" has been decided with the new word sets
\* ("go" is a force-stop word now) while another event is queued
C9_Witness ==
    \E t, u \in Tasks :
        /\ DecidedSpeaking(t)
        /\ task[t].tokens = <<<<"g","o">>, w_uh, <<"o","n">>>>
        /\ ignored_words = {w_umm, w_stop}
        /\ force_stop_words = {<<"g","o">>}
        /\ task[t].cfg = <<ignored_words, force_stop_words>>
        /\ Outcome(t, "valid_interruption", "force_stop_word")
        /\ task[u].pc = "ready"

\* the call has copied agent_speaking
HasRead(t) == HoldsCopy(t) \/ task[t].pc \in {"done", "failed"}

\* the call has produced its outcome and started on its reactions
HasDispatched(t) == task[t].pc \in {"dispatch", "done", "failed"}

\* C10: tasks are numbered in the order the listener delivered their events.
\* A later event's call has copied agent_speaking only if every earlier
\* event's call has (or returned on empty text), and likewise for dispatch.
C10_ArrivalOrder ==
    \A a, b \in Tasks :
        a < b =>
            /\ HasRead(b) => (HasRead(a) \/ task[a].pc = "skipped")
            /\ HasDispatched(b) => (HasDispatched(a) \/ task[a].pc = "skipped")

\* the first event's call has ended after its dispatch and the second
\* event's call is calling its reactions
C10_Witness ==
    /\ task[1].pc \in {"done", "failed"}
    /\ Decided(2)
    /\ task[2].invoked >= 1

\* the call is past its empty-text test and has not ended
Live(t) ==
    task[t].pc \in {"wait_lock", "woken", "locked", "speaking", "conf_ok",
                    "no_force_stop", "dispatch"}

HasSpeech(text) == \E i \in 1..Len(text) : text[i] \notin Whitespace

\* C14: a transcript whose text is empty or only whitespace produces no
\* decision.  Only a call whose text has a character that is not whitespace
\* gets past the empty-text test (to the lock, the checks and the reactions),
\* and the step on which a call returns at that test comes straight from the
\* call's start and leaves agent_speaking, the configuration, the lock and
\* the reaction lists as they were, whatever agent_speaking is.
C14_EmptyTextNoDecision ==
    /\ [](\A t \in Tasks : Live(t) => HasSpeech(task[t].text))
    /\ [][\A t \in Tasks :
            (task[t].pc # "skipped" /\ task'[t].pc = "skipped")
                => /\ task[t].pc = "ready"
                   /\ UNCHANGED handlerVars]_vars

\* a call has returned at the empty-text test while the agent was speaking
\* and a further reaction was registered
C14_Witness ==
    \E t \in Tasks :
        /\ task[t].pc = "skipped"
        /\ agent_speaking
        /\ Registered >= 1

\* the tokens joined by single spaces
RECURSIVE JoinTokens(_)
JoinTokens(toks) ==
    IF toks = <<>> THEN <<>>
    ELSE IF Len(toks) = 1 THEN toks[1]
    ELSE toks[1] \o <<" ">> \o JoinTokens(Tail(toks))

\* two or more consecutive tokens of the transcript spell a phrase of
\* force_stop_words
ContainsForceStopPhrase(t) ==
    \E i, j \in 1..Len(task[t].tokens) :
        /\ i < j
        /\ JoinTokens(SubSeq(task[t].tokens, i, j)) \in force_stop_words

\* C15: while agent_speaking is true and the confidence is not below the
\* floor, a transcript that contains a multi-token phrase of force_stop_words
\* ("shut up") yields Interrupt with reason force_stop_word.
C15_PhraseForceStops ==
    \A t \in Tasks :
        (DecidedSpeaking(t) /\ AboveFloor(t) /\ ContainsForceStopPhrase(t))
            => Outcome(t, "valid_interruption", "force_stop_word")

\* C16: when a reaction raises during a dispatch, the step on which the call
\* ends leaves agent_speaking, the configuration and the reaction lists as
\* they were, the lock is free, the event loop is given up with the queued
\* events still queued; a call that has ended this way holds neither the loop
\* nor a place in the lock's queue, so later events are processed as before.
C16_RaiseLeavesSessionUsable ==
    /\ [][\A t \in Tasks :
            (task[t].pc = "dispatch" /\ task'[t].pc = "failed")
                => /\ UNCHANGED handlerVars
                   /\ ~lock_locked'
                   /\ running' = 0
                   /\ ready' = ready]_vars
    /\ [](\A t \in Tasks :
            task[t].pc = "failed"
                => /\ running # t
                   /\ \A i \in 1..Len(lock_waiters) : lock_waiters[i] # t)

\* a reaction raised during the first event's dispatch; the second event
\* has since been classified as a force-stop interruption while the agent
\* speaks, and its reactions are being called
C16_Witness ==
    /\ task[1].pc = "failed"
    /\ DecidedSpeaking(2)
    /\ agent_speaking
    /\ Outcome(2, "valid_interruption", "force_stop_word")
    /\ task[2].invoked >= 1

\* C18: a handler exists only with both thresholds within [0.0, 1.0]: the
\* constructor rejects any other value of ignore_if_confidence_below or
\* min_confidence_to_consider.
C18_ThresholdsInRange ==
    /\ ignore_if_confidence_below \in 0..100
    /\ min_confidence_to_consider \in 0..100

\* the outcome handle_transcript produces, by its checks of lines 121-149,
\* for a transcript heard while agent_speaking is true
Classify(tokens, avg_conf) ==
    IF LowConfidence(avg_conf, ignore_if_confidence_below) THEN "Ignore"
    ELSE IF has_force_stop(tokens, force_stop_words) THEN "Interrupt"
    ELSE IF non_ignored_tokens(tokens, ignored_words) = <<>> THEN "Ignore"
    ELSE "Interrupt"

\* C17: when the playback started by on_user_turn_completed fails, the turn
\* handler finishes with the handler's agent_speaking false and the agent's
\* own speaking flag false.
C17_SayFailureClearsSpeaking ==
    [][\A u \in Turns :
          (turn[u] # "say_failed" /\ turn'[u] = "say_failed")
              => (~agent_speaking' /\ ~is_speaking')]_vars

\* a playback failed while it was awaited and both flags are false, after an
\* earlier turn's playback had ended normally
C17_Witness ==
    \E u, v \in Turns :
        /\ turn[u] = "said"
        /\ turn[v] = "say_failed"
        /\ ~agent_speaking
        /\ ~is_speaking

\* a playback started by on_user_turn_completed is in progress
Playing(u) == turn[u] = "saying"

\* C19: whenever a playback started by on_user_turn_completed is in
\* progress, the handler's agent_speaking is true.
C19_PlaybackMeansSpeaking ==
    (\E u \in Turns : Playing(u)) => agent_speaking

\* C20: for an utterance that arrives while the agent is speaking,
\* _check_interruption answers true exactly when the session's handler, with
\* its current word sets and threshold, classifies the utterance as Interrupt
\* (and false exactly when it classifies it as Ignore).
C20_CheckMatchesHandler ==
    last_check.checked =>
        (last_check.result
           <=> Classify(tokenize(Strip(last_check.text)), AvgConf(NoConf, <<>>))
                 = "Interrupt")

\* the _start_session tasks created for p so far
SetupsOf(p) == {k \in Setups : setup[k].pc # "none" /\ setup[k].identity = p}

\* C11: connect events for an identity with no disconnect between them
\* create one session only: p has never had more _start_session tasks (each
\* of which makes one AgentSession) than it has joined the room, also when
\* the second connect event arrives while the first one's setup is running.
C11_OneSetupPerJoin ==
    \A p \in Identities : Cardinality(SetupsOf(p)) <= joins[p]

\* C12: once p has disconnected, and until p connects again, every setup
\* task of p still in flight has been cancelled, the registry has no session
\* and no agent for p, and when nothing of p runs any more every session
\* started for p is closed.
C12_DisconnectCancelsSetup ==
    \A p \in Identities :
        ~in_room[p] =>
            /\ \A k \in SetupsOf(p) : InFlight(k) => setup[k].cancel
            /\ sessions[p] = 0
            /\ agents[p] = 0
            /\ (\A k \in SetupsOf(p) :
                   ~InFlight(k) /\ \A c \in Closers : ~Closing(k, c))
                 => \A k \in SetupsOf(p) :
                        setup[k].session \in {"none", "created", "closed"}

\* C13: on the step on which aclose returns, no _start_session task and no
\* _close_session call (started by an earlier disconnect or by aclose) is
\* still running or waiting to run, and every session that was started is
\* closed.
C13_ShutdownIsComplete ==
    [][(shutdown.pc # "returned" /\ shutdown'.pc = "returned")
          => \A k \in Setups :
                 /\ ~InFlight(k)'
                 /\ \A c \in Closers : ~Closing(k, c)'
                 /\ setup'[k].session \in {"none", "created", "closed"}]_vars

\* the word set in effect when `arg` is the last list supplied: its words in
\* lower case, or the built-in default when none was ever supplied
Effective(arg, default) ==
    IF arg.given THEN LowerSet(arg.list) ELSE LowerSet(default)

\* C21: after construction and any update_ignored_words and
\* update_force_stop_words calls, ignored_words and force_stop_words are
\* the lower-cased contents of the list most recently supplied for each (to
\* the constructor or to an update), the defaults are in effect only when no
\* list was ever supplied, and an empty list supplied gives an empty set.
C21_EffectiveSetsAsSupplied ==
    /\ ignored_words = Effective(supplied.ignored, DEFAULT_IGNORED_WORDS)
    /\ force_stop_words = Effective(supplied.force_stop, DEFAULT_FORCE_STOP_WORDS)

====
